---- MODULE Spec2Model ----
(***************************************************************************)
(* Model of the Text-to-Columns utilities:                                 *)
(*   classify_text.py      qa_with_gpt2, generate_with_gpt2, classify_text *)
(*   zotero_integration.py get_all_collections,                            *)
(*                         get_collection_items_metadata                   *)
(*                                                                         *)
(* A Python str is a sequence of symbols.  A symbol is a character, or a   *)
(* run of characters that the code only ever treats as a unit: the marker  *)
(* "assistant:", a word, a block of plain text, an exception message.        *)
(* Python's None is the value None.                                        *)
(***************************************************************************)
EXTENDS Integers, Sequences, FiniteSets, TLC

VARIABLES
    \* ---- classify_text.py : qa_with_gpt2 ----
    conversation,   \* the caller's list of turns (mutated in place)
    qaPre,          \* the conversation as it was before the last call
    qaCalls,        \* number of calls of qa_with_gpt2 made so far
    qaLen0,         \* length of the conversation before the first call
    qaLast,         \* outcome of the last call (see QaNone / qa_with_gpt2)
    \* ---- classify_text.py : classify_text ----
    text_list,      \* the texts handed to classify_text
    terms,          \* the candidate labels
    clsLast,        \* outcome of the last call of classify_text
    \* ---- zotero_integration.py ----
    db,             \* the store: path existence and table contents
    dbLast          \* outcome of the last database call

vars == <<conversation, qaPre, qaCalls, qaLen0, qaLast,
          text_list, terms, clsLast, db, dbLast>>

qaVars  == <<conversation, qaPre, qaCalls, qaLen0, qaLast>>
clsVars == <<text_list, terms, clsLast>>
dbVars  == <<db, dbLast>>

\* Python's None, as a value comparable with every str of the model: a
\* sequence holding one reserved symbol that no alphabet contains.
None == <<"<None>">>

(***************************************************************************)
(* Bounds of the model.                                                    *)
(***************************************************************************)
MaxInitTurns == 1      \* turns in the conversation before the first call
MaxCalls     == 2      \* calls of qa_with_gpt2 in one behaviour
MaxTexts     == 2      \* length of text_list

(***************************************************************************)
(* Generic helpers on sequences (Python list / str primitives).            *)
(***************************************************************************)
Range(s) == { s[i] : i \in 1..Len(s) }

SeqsUpTo(S, n) == UNION { [1..k -> S] : k \in 0..n }

\* str.startswith
StartsWith(s, p) == Len(s) >= Len(p) /\ SubSeq(s, 1, Len(p)) = p

\* f"Error: {str(e)}"
ErrorPrefix == <<"Error: ">>
ErrorMarker(msg) == ErrorPrefix \o msg

(***************************************************************************)
(* classify_text.py : the generator                                        *)
(***************************************************************************)
Marker == "assistant:"
Whitespace == {" ", "\n"}

\* f"{message['role']}: {message['content']}\n" ; the role directly followed
\* by ":" is one symbol, so the role "assistant" yields the marker itself.
SerializeTurn(m) == <<m.role \o ":", " ">> \o m.content \o <<"\n">>

RECURSIVE BuildPrompt(_)
BuildPrompt(conv) ==
    IF conv = <<>> THEN <<Marker>>
    ELSE SerializeTurn(Head(conv)) \o BuildPrompt(Tail(conv))

\* Tokens a symbol stands for under tokenizer_gpt2.tokenize: "B595" and "B596"
\* are blocks of plain text of 595 and 596 tokens (a one-turn prompt around
\* them has 599 and 600 tokens), every other symbol is one token.
TokenThreshold == 600
MaxInputLength == 1024
SymbolTokens(sym) ==
    CASE sym = "B595" -> 595
      [] sym = "B596" -> 596
      [] OTHER -> 1

RECURSIVE Tokenize(_)
Tokenize(s) == IF s = <<>> THEN 0 ELSE SymbolTokens(Head(s)) + Tokenize(Tail(s))

\* tokenizer_gpt2(prompt, truncation=True, max_length=1024): the longest
\* prefix of whole symbols that fits in max_length tokens.
RECURSIVE Truncate(_, _)
Truncate(s, budget) ==
    IF s = <<>> \/ SymbolTokens(Head(s)) > budget THEN <<>>
    ELSE <<Head(s)>> \o Truncate(Tail(s), budget - SymbolTokens(Head(s)))

\* What model_gpt2.generate may add to the input (decoded); the model's
\* choice among these is not determined by the code.
Continuations ==
    { <<>>,
      <<" ", "w", " ">>,
      <<" ", "w", "\n", "user:", " ", "w">>,
      <<" ", "w", "\n", Marker, " ", "v", "\n">> }

\* generate_with_gpt2: decode(input ids ++ new tokens), or the exception the
\* model call raised.  gen is a continuation, or None when the call raises.
generate_with_gpt2(prompt, gen) ==
    IF gen = None
    THEN [ok |-> FALSE, text |-> <<"RuntimeError">>]
    ELSE [ok |-> TRUE,  text |-> Truncate(prompt, MaxInputLength) \o gen]

\* generated_text.split("assistant:")[-1]
RECURSIVE AfterLastMarker(_)
AfterLastMarker(s) ==
    IF Marker \notin Range(s) THEN s
    ELSE AfterLastMarker(Tail(s))

\* str.strip()
RECURSIVE LStrip(_)
LStrip(s) == IF s # <<>> /\ Head(s) \in Whitespace THEN LStrip(Tail(s)) ELSE s
RECURSIVE RStrip(_)
RStrip(s) ==
    IF s # <<>> /\ s[Len(s)] \in Whitespace THEN RStrip(SubSeq(s, 1, Len(s) - 1)) ELSE s
Strip(s) == RStrip(LStrip(s))

\* handle_large_contexts is called but neither defined nor imported in
\* classify_text.py: evaluating the name raises NameError.
NameErrorMsg == <<"name 'handle_large_contexts' is not defined">>
handle_large_contexts(prompt_tokens, max_tokens) ==
    [ok |-> FALSE, text |-> NameErrorMsg]

AssistantTurn(content) == [role |-> "assistant", content |-> content]

\* Mutant of QaExcept: the handler lets the exception reach the caller.
QaExceptReraise(conv, msg) ==
    [conv |-> conv, raised |-> TRUE, path |-> "except", genInput |-> None,
     generated |-> None]

\* The except clause of qa_with_gpt2 : append the error turn and return.
QaExcept(conv, msg) ==
    [conv |-> Append(conv, AssistantTurn(ErrorMarker(msg))), raised |-> FALSE,
     path |-> "except", genInput |-> None, generated |-> None]

\* The end of the try body : parse the reply, append it and return.
QaReply(conv, genInput, generated) ==
    [conv |-> Append(conv, AssistantTurn(Strip(AfterLastMarker(generated)))),
     raised |-> FALSE, path |-> "reply", genInput |-> genInput,
     generated |-> generated]

\* qa_with_gpt2(conversation): tokFail says that tokenizer_gpt2.tokenize
\* raises, gen is what the model call does (see generate_with_gpt2).
qa_with_gpt2(conv, tokFail, gen) ==
    LET prompt == BuildPrompt(conv) IN
    IF tokFail THEN QaExcept(conv, <<"tokenize failed">>)
    ELSE IF Tokenize(prompt) < TokenThreshold
    THEN LET g == generate_with_gpt2(prompt, gen) IN
         IF g.ok THEN QaReply(conv, prompt, g.text) ELSE QaExcept(conv, g.text)
    ELSE LET r == handle_large_contexts(prompt, 300) IN
         IF ~r.ok THEN QaExcept(conv, r.text)
         ELSE LET g == generate_with_gpt2(r.text, gen) IN
              IF g.ok THEN QaReply(conv, r.text, g.text) ELSE QaExcept(conv, g.text)

\* modelOk: the tokenizer and the model call of the last call both succeeded.
QaNone == [raised |-> FALSE, path |-> "none", genInput |-> None,
           generated |-> None, modelOk |-> FALSE]

Roles == {"user", "assistant"}
Contents == { <<"w">>, <<"B595">>, <<"B596">>, <<"w", Marker, "w">> }
Turns == [role : Roles, content : Contents]

QaInit ==
    /\ conversation \in SeqsUpTo(Turns, MaxInitTurns)
    /\ qaPre = conversation
    /\ qaCalls = 0
    /\ qaLen0 = Len(conversation)
    /\ qaLast = QaNone

Converse ==
    /\ qaCalls < MaxCalls
    /\ \E tokFail \in BOOLEAN, gen \in Continuations \cup {None} :
         LET r == qa_with_gpt2(conversation, tokFail, gen) IN
         /\ conversation' = r.conv
         /\ qaLast' = [raised |-> r.raised, path |-> r.path,
                       genInput |-> r.genInput, generated |-> r.generated,
                       modelOk |-> (~tokFail /\ gen # None)]
    /\ qaPre' = conversation
    /\ qaCalls' = qaCalls + 1
    /\ UNCHANGED qaLen0

(***************************************************************************)
(* classify_text.py : the classifier                                       *)
(***************************************************************************)
\* pipe(text, candidate_labels=terms): the result's 'labels' are the
\* candidate labels ordered by descending score; which order is the model's
\* choice.  The pipeline raises on an empty text or an empty label list, and
\* may raise for any other reason.
Orderings(labels) ==
    { p \in [1..Len(labels) -> 1..Len(labels)] :
        \A i, j \in 1..Len(labels) : i # j => p[i] # p[j] }

PipeOutcomes(text, labels) ==
    { [ok |-> FALSE, labels |-> <<>>, msg |-> <<"pipeline failed">>] }
    \cup
    (IF text = <<>> \/ labels = <<>> THEN {}
     ELSE { [ok |-> TRUE, labels |-> [i \in 1..Len(labels) |-> labels[p[i]]],
             msg |-> <<>>] : p \in Orderings(labels) })

\* One iteration of the loop body, try/except included.
ClassifyOne(out) ==
    IF out.ok THEN out.labels[1] ELSE ErrorMarker(out.msg)

\* Mutant of classify_text: the try encloses the loop, so the first failure
\* ends the batch with one error marker.
classify_text_try_outside(outs) ==
    LET failed == { i \in 1..Len(outs) : ~outs[i].ok }
        n == IF failed = {} THEN Len(outs)
             ELSE CHOOSE i \in failed : \A j \in failed : i <= j
    IN  [raised |-> FALSE,
         classifications |-> [i \in 1..n |-> ClassifyOne(outs[i])]]

\* classify_text(text_list, prompt, terms) given the pipeline's outcome for
\* each text.
classify_text(outs) ==
    [raised |-> FALSE,
     classifications |-> [i \in 1..Len(outs) |-> ClassifyOne(outs[i])]]

Texts     == { <<>>, <<"a">>, <<"b">> }
LabelSets == { <<>>, << <<"pos">> >>, << <<"pos">>, <<"neg">> >> }

ClsNone == [called |-> FALSE, raised |-> FALSE, classifications |-> <<>>,
            outs |-> <<>>]

ClsInit ==
    /\ text_list \in SeqsUpTo(Texts, MaxTexts)
    /\ terms \in LabelSets
    /\ clsLast = ClsNone

Classify ==
    /\ \E outs \in [1..Len(text_list) ->
                      UNION { PipeOutcomes(t, terms) : t \in Range(text_list) }] :
         /\ \A i \in 1..Len(text_list) : outs[i] \in PipeOutcomes(text_list[i], terms)
         /\ LET r == classify_text(outs) IN
            clsLast' = [called |-> TRUE, raised |-> r.raised,
                        classifications |-> r.classifications, outs |-> outs]
    /\ UNCHANGED <<text_list, terms>>

(***************************************************************************)
(* zotero_integration.py : the store                                       *)
(*                                                                         *)
(* db.exists          os.path.exists(db_path)                              *)
(* db.collections     rows [collectionID, collectionName] in table order   *)
(* db.collectionItems rows [collectionID, itemID] in table order           *)
(* db.items[i]        result of SELECT key FROM items WHERE itemID=i :     *)
(*                    <<>> (no row) or the one-column row <<key>>          *)
(* db.title[i]        result of the fieldID=110 join : <<>> or <<value>>   *)
(* db.date[i]         result of the fieldID=115 join : <<>> or <<value>>   *)
(* db.creators[i]     creators.lastName of the item's itemCreators rows    *)
(* A column value is a str or None (SQL NULL).                             *)
(***************************************************************************)
MaxCollections == 4    \* rows of the collections table
MaxItems       == 2    \* items of a collection
MaxDateLen     == 5    \* characters of a raw date value

ItemIDs == 1..MaxItems

\* ord(c) for the characters of collection names.
CodePoint(c) == CASE c = "a" -> 97 [] c = "b" -> 98

\* Python's str < str : lexicographic by code point.
RECURSIVE StrLess(_, _)
StrLess(s, t) ==
    IF t = <<>> THEN FALSE
    ELSE IF s = <<>> THEN TRUE
    ELSE IF Head(s) # Head(t) THEN CodePoint(Head(s)) < CodePoint(Head(t))
    ELSE StrLess(Tail(s), Tail(t))

\* Mutant of PySet: sorted(collection_names) without set().
PySetKeepAll(l) == l

\* set(list) : one occurrence of each element (the order is immaterial to
\* sorted()).
RECURSIVE PySet(_)
PySet(l) ==
    IF l = <<>> THEN <<>>
    ELSE LET rest == PySet(Tail(l)) IN
         IF Head(l) \in Range(rest) THEN rest ELSE <<Head(l)>> \o rest

\* sorted(iterable) : insertion into the sorted rest, stable.
RECURSIVE Insert(_, _)
Insert(x, l) ==
    IF l = <<>> THEN <<x>>
    ELSE IF StrLess(Head(l), x) \/ Head(l) = x THEN <<Head(l)>> \o Insert(x, Tail(l))
    ELSE <<x>> \o l
RECURSIVE Sorted(_)
Sorted(l) == IF l = <<>> THEN <<>> ELSE Insert(Head(l), Sorted(Tail(l)))

\* [r[0] for r in rows if r[0] is not None]
NotNoneNames(rows) ==
    LET kept == SelectSeq(rows, LAMBDA r : r.collectionName # None) IN
    [i \in 1..Len(kept) |-> kept[i].collectionName]

\* Outcome of a database call: what it raised, how many connections it
\* opened and closed, how many queries it issued, and the value returned
\* (None when it raised).
DbOutcome(raised, connects, closes, queries, result) ==
    [raised |-> raised, connects |-> connects, closes |-> closes,
     queries |-> queries, result |-> result]

\* Mutant of StoreMissing: the existence check is left out (sqlite3.connect
\* then creates an empty database file).
StoreMissingUnchecked(d) == FALSE

\* if not os.path.exists(db_path): raise FileNotFoundError(...)
StoreMissing(d) == ~d.exists
NotFound == DbOutcome("FileNotFoundError", 0, 0, 0, None)

\* An execute()/fetch that raises leaves the function at once: nothing
\* between it and the caller closes the connection.
QueryError(queries) == DbOutcome("sqlite3.Error", 1, 0, queries, None)

\* get_all_collections(db_path); failAt = k > 0 : the k-th query raises.
get_all_collections(d, failAt) ==
    IF StoreMissing(d) THEN NotFound
    ELSE IF failAt = 1 THEN QueryError(1)
    ELSE DbOutcome("none", 1, 1, 1, Sorted(PySet(NotNoneNames(d.collections))))

\* Mutant of SelectCollectionID: the WHERE clause is left out.
SelectCollectionIDAnyName(d, name) ==
    IF d.collections = <<>> THEN <<>> ELSE <<d.collections[1].collectionID>>

\* SELECT collectionID FROM collections WHERE collectionName=? ; fetchone().
\* NULL = NULL is not true in SQL, so a NULL name matches nothing.
SelectCollectionID(d, name) ==
    LET hits == SelectSeq(d.collections,
                          LAMBDA r : r.collectionName # None /\ name # None
                                     /\ r.collectionName = name) IN
    IF hits = <<>> THEN <<>> ELSE <<hits[1].collectionID>>

\* SELECT itemID FROM collectionItems WHERE collectionID=? ; fetchall().
SelectItemIDs(d, cid) ==
    LET hits == SelectSeq(d.collectionItems, LAMBDA r : r.collectionID = cid) IN
    [i \in 1..Len(hits) |-> hits[i].itemID]

\* SELECT group_concat(creators.lastName, '; ') ... ; fetchone(): an aggregate
\* without GROUP BY always yields one row; its value is NULL when no row
\* with a non-NULL lastName is aggregated.
RECURSIVE JoinNames(_)
JoinNames(l) ==
    IF Len(l) = 1 THEN l[1] ELSE l[1] \o <<"; ">> \o JoinNames(Tail(l))
GroupConcat(names) ==
    LET kept == SelectSeq(names, LAMBDA n : n # None) IN
    IF kept = <<>> THEN <<None>> ELSE <<JoinNames(kept)>>

\* re.match(r"(\d{4})", date_val) : n more digits at the start of s.
IsDigit(c) == c \in {"0", "1", "2", "3", "4", "5", "6", "7", "8", "9"}
RECURSIVE MatchDigits(_, _)
MatchDigits(s, n) ==
    IF n = 0 THEN TRUE
    ELSE IF s = <<>> THEN FALSE
    ELSE IsDigit(Head(s)) /\ MatchDigits(Tail(s), n - 1)

\* Mutant of ExtractYear: date_val[:4] without the digit match.
ExtractYearSlice(date_val) ==
    IF date_val = None THEN <<>>
    ELSE SubSeq(date_val, 1, IF Len(date_val) < 4 THEN Len(date_val) ELSE 4)

YearDigits == 4
\* year = "" ; if date_val: m = re.match(...) ; if m: year = m.group(1)
ExtractYear(date_val) ==
    IF date_val # None /\ date_val # <<>> /\ MatchDigits(date_val, YearDigits)
    THEN SubSeq(date_val, 1, YearDigits)
    ELSE <<>>

\* x = row[0] if row else ""
FirstOrEmpty(row) == IF row # <<>> THEN row[1] ELSE <<>>

\* Steps 3) to 6) and the dictionary built from them, for one item.
MetaDict(d, item_id) ==
    [itemID  |-> item_id,
     title   |-> FirstOrEmpty(d.title[item_id]),
     authors |-> FirstOrEmpty(GroupConcat(d.creators[item_id])),
     year    |-> ExtractYear(FirstOrEmpty(d.date[item_id])),
     key     |-> FirstOrEmpty(d.items[item_id])]

\* if require_attachment: row_key = fetchone() ; if not row_key: continue
SkipItem(d, item_id, require_attachment) ==
    require_attachment /\ d.items[item_id] = <<>>

QueriesPerRecord == 4

\* The for loop over item_ids; q queries were issued before it.  The result
\* is the outcome of the whole call.
RECURSIVE ItemLoop(_, _, _, _, _, _)
ItemLoop(d, item_ids, require_attachment, failAt, q, all_metadata) ==
    IF item_ids = <<>> THEN DbOutcome("none", 1, 1, q, all_metadata)
    ELSE
      LET item_id == Head(item_ids)
          q1 == IF require_attachment THEN q + 1 ELSE q
      IN
      IF require_attachment /\ failAt = q1 THEN QueryError(q1)
      ELSE IF SkipItem(d, item_id, require_attachment)
      THEN ItemLoop(d, Tail(item_ids), require_attachment, failAt, q1, all_metadata)
      ELSE IF failAt \in (q1 + 1)..(q1 + QueriesPerRecord) THEN QueryError(failAt)
      ELSE ItemLoop(d, Tail(item_ids), require_attachment, failAt,
                    q1 + QueriesPerRecord, Append(all_metadata, MetaDict(d, item_id)))

\* get_collection_items_metadata(db_path, collection_name, require_attachment)
get_collection_items_metadata(d, collection_name, require_attachment, failAt) ==
    IF StoreMissing(d) THEN NotFound
    ELSE IF failAt = 1 THEN QueryError(1)
    ELSE LET row == SelectCollectionID(d, collection_name) IN
      IF row = <<>> THEN DbOutcome("none", 1, 1, 1, <<>>)
      ELSE IF failAt = 2 THEN QueryError(2)
      ELSE LET item_ids == SelectItemIDs(d, row[1]) IN
        IF item_ids = <<>> THEN DbOutcome("none", 1, 1, 2, <<>>)
        ELSE ItemLoop(d, item_ids, require_attachment, failAt, 2, <<>>)

(***************************************************************************)
(* Stores the extractor is run against.                                    *)
(***************************************************************************)
CollNames   == {None, <<"a", "b">>, <<"b">>}
DateChars   == {"2", "-"}
SomeKey     == <<"ABCD2345">>
SomeTitle   == <<"A Title">>
SomeDate    == <<"2", "0", "2", "3", "-", "0", "5", "-", "0", "1">>
KeyRows     == { <<>>, << <<>> >>, <<SomeKey>> }
TitleRows   == { <<>>, <<SomeTitle>> }
CreatorSets == { <<>>, <<None>>, << <<"Smith">> >>, << <<"Smith">>, None, <<"Lee">> >> }
DateRows    == { <<>>, <<None>> } \cup { <<v>> : v \in SeqsUpTo(DateChars, MaxDateLen) }

\* The collections table holding the given names, collectionID = row number.
CollectionsOf(names) ==
    [i \in 1..Len(names) |-> [collectionID |-> i, collectionName |-> names[i]]]

\* Items 1..n are the members of collection 1, in table order.
MembersOf(n) == [i \in 1..n |-> [collectionID |-> 1, itemID |-> i]]

Store(names, n, keys, titles, creators, dates) ==
    [exists |-> TRUE, collections |-> CollectionsOf(names),
     collectionItems |-> MembersOf(n),
     items |-> keys, title |-> titles, creators |-> creators, date |-> dates]

DefaultKeys     == [i \in ItemIDs |-> <<SomeKey>>]
DefaultTitles   == [i \in ItemIDs |-> <<SomeTitle>>]
DefaultCreators == [i \in ItemIDs |-> << <<"Smith">> >>]
DefaultDates    == [i \in ItemIDs |-> <<SomeDate>>]

\* f with item 1's row replaced.
OfItem1(f, row) == [i \in ItemIDs |-> IF i = 1 THEN row ELSE f[i]]

\* No file at db_path.
MissingStore ==
    [exists |-> FALSE, collections |-> <<>>, collectionItems |-> <<>>,
     items |-> DefaultKeys, title |-> DefaultTitles,
     creators |-> DefaultCreators, date |-> DefaultDates]

\* Any collections table, one ordinary member item.
CollectionStores ==
    { Store(names, 1, DefaultKeys, DefaultTitles, DefaultCreators, DefaultDates) :
        names \in SeqsUpTo(CollNames, MaxCollections) }

\* One collection "b" of n items, each with any key row and title row; the
\* rows of the items outside the collection are the default ones.
ItemStores ==
    UNION { { Store(<< <<"b">> >>, n, k, t, DefaultCreators, DefaultDates) :
                k \in { f \in [ItemIDs -> KeyRows] :
                          \A i \in ItemIDs : i > n => f[i] = <<SomeKey>> },
                t \in { f \in [ItemIDs -> TitleRows] :
                          \A i \in ItemIDs : i > n => f[i] = <<SomeTitle>> } }
            : n \in 0..MaxItems }

\* One collection "b" of one item with any creators and any title row.
CreatorStores ==
    { Store(<< <<"b">> >>, 1, DefaultKeys, OfItem1(DefaultTitles, t),
            OfItem1(DefaultCreators, c), DefaultDates) :
        c \in CreatorSets, t \in TitleRows }

\* One collection "b" of one item with any raw date value.
DateStores ==
    { Store(<< <<"b">> >>, 1, DefaultKeys, DefaultTitles, DefaultCreators,
            OfItem1(DefaultDates, dr)) :
        dr \in DateRows }

Stores ==
    {MissingStore} \cup CollectionStores \cup ItemStores \cup CreatorStores
    \cup DateStores

NameArgs == {None, <<"a", "b">>, <<"b">>, <<"z">>}
MaxQueries == 2 + (QueriesPerRecord + 1) * MaxItems

DbNone == [op |-> "none", name |-> None, require_attachment |-> FALSE,
           raised |-> "none", connects |-> 0, closes |-> 0, queries |-> 0,
           result |-> None]

DbCall(op, name, require_attachment, out) ==
    [op |-> op, name |-> name, require_attachment |-> require_attachment,
     raised |-> out.raised, connects |-> out.connects, closes |-> out.closes,
     queries |-> out.queries, result |-> out.result]

DbInit ==
    /\ db \in Stores
    /\ dbLast = DbNone

GetAllCollections ==
    /\ \E failAt \in 0..1 :
         dbLast' = DbCall("get_all_collections", None, FALSE,
                          get_all_collections(db, failAt))
    /\ UNCHANGED db

GetCollectionItemsMetadata ==
    /\ \E name \in NameArgs, req \in BOOLEAN, failAt \in 0..MaxQueries :
         dbLast' = DbCall("get_collection_items_metadata", name, req,
                          get_collection_items_metadata(db, name, req, failAt))
    /\ UNCHANGED db

(***************************************************************************)
(* Specifications: one per component (the components share no state).      *)
(***************************************************************************)
QaIdle ==
    /\ conversation = <<>> /\ qaPre = <<>> /\ qaCalls = 0 /\ qaLen0 = 0
    /\ qaLast = QaNone
ClsIdle == text_list = <<>> /\ terms = <<>> /\ clsLast = ClsNone
DbIdle  == db = MissingStore /\ dbLast = DbNone

InitConverse == QaInit /\ ClsIdle /\ DbIdle
NextConverse == Converse /\ UNCHANGED <<clsVars, dbVars>>
SpecConverse == InitConverse /\ [][NextConverse]_vars

InitClassify == ClsInit /\ QaIdle /\ DbIdle
NextClassify == Classify /\ UNCHANGED <<qaVars, dbVars>>
SpecClassify == InitClassify /\ [][NextClassify]_vars

InitStore == DbInit /\ QaIdle /\ ClsIdle
NextStore ==
    \/ GetAllCollections /\ UNCHANGED <<qaVars, clsVars>>
    \/ GetCollectionItemsMetadata /\ UNCHANGED <<qaVars, clsVars>>
SpecStore == InitStore /\ [][NextStore]_vars

(***************************************************************************)
(* Claims.                                                                 *)
(***************************************************************************)
Last(l) == l[Len(l)]

\* C1: a call of qa_with_gpt2 never raises and leaves the conversation equal
\* to the turns before the call, unchanged and in order, followed by exactly
\* one new turn of role "assistant", whatever the tokenizer and the model do;
\* after n calls the conversation has grown by exactly n turns.
C1_OneAssistantTurnPerCall ==
    /\ ~qaLast.raised
    /\ Len(conversation) = qaLen0 + qaCalls
    /\ qaCalls > 0 =>
         /\ Len(conversation) = Len(qaPre) + 1
         /\ SubSeq(conversation, 1, Len(qaPre)) = qaPre
         /\ Last(conversation).role = "assistant"

\* Two calls were made, the first answered and the second failed inside.
C1_Witness ==
    /\ qaCalls = 2
    /\ qaLast.path = "except"
    /\ ~StartsWith(Last(qaPre).content, ErrorPrefix)
    /\ StartsWith(Last(conversation).content, ErrorPrefix)

\* C10: when the tokenizer and the model call succeed, a prompt of fewer than
\* 600 tokens is passed whole to generate, a prompt of 600 tokens or more is
\* reduced and the reduced prompt is passed to generate, and in both cases the
\* appended turn is the generated text after the final "assistant:" marker,
\* not an error marker.
C10_ThresholdRouting ==
    (qaCalls > 0 /\ qaLast.modelOk) =>
        LET prompt == BuildPrompt(qaPre) IN
        /\ qaLast.path = "reply"
        /\ Tokenize(prompt) < TokenThreshold  => qaLast.genInput = prompt
        /\ Tokenize(prompt) >= TokenThreshold => qaLast.genInput # None
        /\ Last(conversation).content = Strip(AfterLastMarker(qaLast.generated))

\* C4: classify_text returns a list as long as text_list; element i is the
\* top-scoring label of text i, a member of the candidate labels, or, when
\* scoring text i failed, a string starting with "Error: "; the other texts
\* are classified all the same.
C4_PerItemIsolation ==
    clsLast.called =>
        /\ ~clsLast.raised
        /\ Len(clsLast.classifications) = Len(text_list)
        /\ \A i \in 1..Len(text_list) :
             LET c == clsLast.classifications[i]
                 o == clsLast.outs[i]
             IN  IF o.ok
                 THEN c = o.labels[1] /\ c \in Range(terms)
                 ELSE StartsWith(c, ErrorPrefix)

\* Scoring the first text failed and the second text was classified.
C4_Witness ==
    /\ clsLast.called
    /\ Len(text_list) >= 2
    /\ ~clsLast.outs[1].ok
    /\ clsLast.outs[2].ok
    /\ clsLast.classifications[2] \in Range(terms)

\* C2: with require_attachment=True the call returns exactly the records of
\* the require_attachment=False result whose key is non-empty, in the same
\* order.
HasKey(r) == r.key # None /\ r.key # <<>>
C2_AttachmentFilter ==
    (/\ dbLast.op = "get_collection_items_metadata"
     /\ dbLast.require_attachment
     /\ dbLast.raised = "none") =>
        dbLast.result =
            SelectSeq(get_collection_items_metadata(db, dbLast.name, FALSE, 0).result,
                      HasKey)

\* C3: every connection a database call opens is closed when the call ends,
\* on every exit path.
C3_ConnectionReleased ==
    dbLast.op # "none" => dbLast.closes = dbLast.connects

\* C5: when the store path does not exist both calls raise FileNotFoundError
\* before any connection is opened or any query issued, and return nothing.
C5_MissingStoreNotFound ==
    (dbLast.op # "none" /\ ~db.exists) =>
        /\ dbLast.raised = "FileNotFoundError"
        /\ dbLast.connects = 0
        /\ dbLast.queries = 0
        /\ dbLast.result = None

C5_Witness ==
    /\ ~db.exists
    /\ dbLast.op = "get_collection_items_metadata"
    /\ dbLast.raised = "FileNotFoundError"

\* C6: on an existing, readable store, a collection name that matches no row
\* of the collections table gives the empty list and no error, for both values
\* of require_attachment.
NoRowNamed(name) ==
    \A i \in 1..Len(db.collections) : db.collections[i].collectionName # name
C6_UnknownCollectionEmpty ==
    (/\ dbLast.op = "get_collection_items_metadata"
     /\ db.exists
     /\ NoRowNamed(dbLast.name)
     /\ dbLast.raised # "sqlite3.Error") =>
        /\ dbLast.raised = "none"
        /\ dbLast.result = <<>>

\* The table has rows, none of them with the name asked for.
C6_Witness ==
    /\ dbLast.op = "get_collection_items_metadata"
    /\ db.exists
    /\ db.collections # <<>>
    /\ db.collectionItems # <<>>
    /\ dbLast.name # None
    /\ NoRowNamed(dbLast.name)
    /\ dbLast.require_attachment
    /\ dbLast.raised = "none"
    /\ dbLast.result = <<>>

\* C7: get_all_collections returns a strictly ascending list whose elements
\* are exactly the non-null collection names of the table.
TableNames == { db.collections[i].collectionName : i \in 1..Len(db.collections) }
C7_SortedDistinctNames ==
    (dbLast.op = "get_all_collections" /\ dbLast.raised = "none") =>
        /\ \A i \in 1..(Len(dbLast.result) - 1) :
             StrLess(dbLast.result[i], dbLast.result[i + 1])
        /\ Range(dbLast.result) = TableNames \ {None}

\* A table with a duplicate name, a null name and two distinct names, the
\* larger one first.
C7_Witness ==
    /\ dbLast.op = "get_all_collections"
    /\ dbLast.raised = "none"
    /\ Len(db.collections) = 4
    /\ None \in TableNames
    /\ db.collections[1].collectionName = <<"b">>
    /\ dbLast.result = << <<"a", "b">>, <<"b">> >>

\* C8: a record's year is the first four characters of the item's raw date
\* value when that value begins with four digits, and "" otherwise (no date
\* row, a null, empty or shorter value, or one not starting with four digits).
RawDate(item_id) == db.date[item_id]
BeginsWithFourDigits(row) ==
    /\ row # <<>>
    /\ row[1] # None
    /\ Len(row[1]) >= 4
    /\ \A k \in 1..4 : IsDigit(row[1][k])
C8_YearFromDate ==
    (dbLast.op = "get_collection_items_metadata" /\ dbLast.raised = "none") =>
        \A i \in 1..Len(dbLast.result) :
            LET r == dbLast.result[i] IN
            r.year = IF BeginsWithFourDigits(RawDate(r.itemID))
                     THEN SubSeq(RawDate(r.itemID)[1], 1, 4)
                     ELSE <<>>

\* A date longer than four characters that begins with four digits.
C8_Witness ==
    /\ dbLast.op = "get_collection_items_metadata"
    /\ dbLast.raised = "none"
    /\ dbLast.result # <<>>
    /\ RawDate(1) = << <<"2", "2", "2", "2", "-">> >>
    /\ dbLast.result[1].year = <<"2", "2", "2", "2">>

\* C9: title, authors, year and key of every record are strings, never null;
\* authors is the "; "-joined surnames of the item's creators, and "" when the
\* item has no creators; title and key are "" when the item has no title value
\* or no key.
C9_RecordFieldsAreStrings ==
    (dbLast.op = "get_collection_items_metadata" /\ dbLast.raised = "none") =>
        \A i \in 1..Len(dbLast.result) :
            LET r == dbLast.result[i] IN
            /\ r.title # None /\ r.authors # None /\ r.year # None /\ r.key # None
            /\ db.creators[r.itemID] = <<>> => r.authors = <<>>
            /\ db.title[r.itemID] = <<>> => r.title = <<>>
            /\ db.items[r.itemID] = <<>> => r.key = <<>>

====
